---- MODULE Spec2Model ----
(***************************************************************************)
(* Position & Risk Ledger Engine of the Gemini trading bot.                *)
(*                                                                         *)
(* State: the `portfolio` table (one wallet row per seeded strategy) and   *)
(* the `trades` table, plus the position of every running pass.  A pass is *)
(* one invocation of execute_trade, execute_exit, run_watchdog or          *)
(* place_or_update_trade; each database statement of a pass is one step,   *)
(* so that overlapping passes interleave at statement granularity.         *)
(*                                                                         *)
(* Numbers: prices and balances are integers (rupees).  Fractions of the   *)
(* source are kept as integer percentages (0.02 -> 2, 0.2 -> 20,           *)
(* 0.75 -> 75, 0.99 -> 99) and int(a / b) is a \div b on the exact         *)
(* quotient.  An averaged entry price is the exact rational [n, d].        *)
(***************************************************************************)
EXTENDS Integers, Sequences, FiniteSets, TLC

\* ------------------------------------------------------------------ bounds
MaxTrades == 2
MaxCloseWrites == 2
MaxLots == 2
MaxFailures == 1
MaxSizerPriceSteps == 6

\* ------------------------------------------------------- program constants
ACCOUNT_SIZE == 100000
RISK_PER_TRADE_PCT == 2
MAX_POSITION_ALLOCATION_PCT == 20
SEED_BALANCE == 100000
EXECUTE_TRADE_RISK_PCT == 2
RESIZE_PCT == 99
STOP_ATR_MULT == 2
TARGET_ATR_MULT == 4

Strategies == {"STRATEGY_MOMENTUM", "STRATEGY_MEAN_REVERSION", "STRATEGY_AI_SNIPER"}
DEFAULT_STRATEGY == "MASTER"

\* ------------------------------------------------------------ input domains
\* the full domains; each specification draws its inputs from a subset
Passes == {1, 2}
Tickers == {"TCS", "INFY"}
Vix == {12, 17, 25}
OpStrategies == {"STRATEGY_MOMENTUM", "STRATEGY_MEAN_REVERSION"}
Prices == {100, 110}
LivePrices == {90, 105, 120}
Atrs == {0, 5}
VolFactors == {50, 75, 100}
SignalQtys == {10}
Targets == {120, 130}
MaxSignalQty == CHOOSE m \in SignalQtys : \A x \in SignalQtys : x <= m
Stops == {90}
ExitStatuses == {"CLOSED"}

\* ----------------------------------------------------------------- helpers
NULL == <<>>
Some(v) == <<v>>

Abs(x) == IF x < 0 THEN -x ELSE x
Min(a, b) == IF a < b THEN a ELSE b
Max(a, b) == IF a > b THEN a ELSE b

RECURSIVE Gcd(_, _)
Gcd(a, b) == IF b = 0 THEN a ELSE Gcd(b, a % b)

\* exact rational n/d in lowest terms, d > 0
Rat(n, d) == LET g == Gcd(Abs(n), d) IN [n |-> n \div g, d |-> d \div g]
RatInt(k) == [n |-> k, d |-> 1]
\* integer value of r * q when d divides q (always so for a row's own quantity)
RatTimes(r, q) == (r.n * q) \div r.d

RECURSIVE SumSeq(_, _)
SumSeq(f, i) == IF i = 0 THEN 0 ELSE f[i] + SumSeq(f, i - 1)

RECURSIVE SumSet(_, _)
SumSet(f, S) == IF S = {} THEN 0
                ELSE LET x == CHOOSE y \in S : TRUE IN f[x] + SumSet(f, S \ {x})

VARIABLES wallet, trades, pc, loc, sz, call, fails

vars == <<wallet, trades, pc, loc, sz, call, fails>>
ledger == <<wallet, trades, pc, loc, call, fails>>

\* ------------------------------------------------------------- Risk Sizer
get_market_volatility_fail_closed(vix_ok, vix) ==
    IF ~vix_ok THEN 0
    ELSE IF vix < 15 THEN 100
    ELSE IF vix < 20 THEN 75
    ELSE 50

\* get_market_volatility returns one of 1.0, 0.75, 0.5 (here 100, 75, 50);
\* the VIX read is external, so the caller draws vf from VolFactors.
get_market_volatility(vix_ok, vix) ==
    IF ~vix_ok THEN 100
    ELSE IF vix < 15 THEN 100
    ELSE IF vix < 20 THEN 75
    ELSE 50

\* variant: zero risk per share is not rejected, the capital limit sizes it
calculate_position_size_zero_risk(entry, stop_loss, risk_per_trade, vf) ==
    LET final_risk_pct == IF risk_per_trade # NULL THEN risk_per_trade[1]
                          ELSE RISK_PER_TRADE_PCT
        risk_per_share == Abs(entry - stop_loss)
        qty_by_capital == (ACCOUNT_SIZE * MAX_POSITION_ALLOCATION_PCT) \div (100 * entry)
    IN  IF entry = 0 THEN 0
        ELSE IF risk_per_share = 0 THEN Max(1, qty_by_capital)
        ELSE Max(1, Min((ACCOUNT_SIZE * final_risk_pct * vf) \div (10000 * risk_per_share),
                        qty_by_capital))

\* risk_per_trade is NULL (None: use RISK_PER_TRADE) or Some(percent)
calculate_position_size(entry, stop_loss, risk_per_trade, vf) ==
    LET final_risk_pct == IF risk_per_trade # NULL THEN risk_per_trade[1]
                          ELSE RISK_PER_TRADE_PCT
        risk_per_share == Abs(entry - stop_loss)
        qty_by_risk    == (ACCOUNT_SIZE * final_risk_pct * vf) \div (10000 * risk_per_share)
        qty_by_capital == (ACCOUNT_SIZE * MAX_POSITION_ALLOCATION_PCT) \div (100 * entry)
    IN  IF risk_per_share = 0 THEN 0
        ELSE IF entry = 0 THEN 0     \* ZeroDivisionError, caught: return 0
        ELSE Max(1, Min(qty_by_risk, qty_by_capital))

\* --------------------------------------------------------------- database
Trade(ticker, strategy, entry, target, stop, qty) ==
    [ticker |-> ticker, strategy_name |-> strategy, entry_price |-> entry,
     target_price |-> target, stop_loss |-> stop, quantity |-> qty,
     status |-> "OPEN", exit_time |-> NULL, pnl |-> NULL]

init_db == [s \in Strategies |-> SEED_BALANCE]

get_current_balance(strategy) ==
    IF strategy \in DOMAIN wallet THEN wallet[strategy] ELSE 0

get_open_trades_any_strategy(strategy) ==
    {i \in 1..Len(trades) : trades[i].status = "OPEN"}

\* ids of the rows get_open_trades returns, in id order
get_open_trades(strategy) ==
    {i \in 1..Len(trades) : /\ trades[i].status = "OPEN"
                            /\ (strategy # NULL => trades[i].strategy_name = strategy[1])}

RECURSIVE SortedIds(_)
SortedIds(S) == IF S = {} THEN <<>>
                ELSE LET m == CHOOSE x \in S : \A y \in S : x <= y
                     IN <<m>> \o SortedIds(S \ {m})

\* what a caller holds after reading row i
Snapshot(i) == [id |-> i, ticker |-> trades[i].ticker,
                strategy_name |-> trades[i].strategy_name,
                quantity |-> trades[i].quantity,
                entry_price |-> trades[i].entry_price,
                target_price |-> trades[i].target_price,
                stop_loss |-> trades[i].stop_loss]

NoSnapshot == [id |-> 0, ticker |-> "", strategy_name |-> "", quantity |-> 0,
               entry_price |-> RatInt(0), target_price |-> 0, stop_loss |-> 0]

\* ------------------------------------------------------- locals of a pass
\* rows0 is the number of trade rows when the pass began (history only)
\* cur is current_price of the scan: NULL when no price was obtained
\* raised is the exception that ended the pass, "" when there is none
EmptyLoc == [op |-> "none", wstrat |-> "", amount |-> 0, readBal |-> 0,
             after |-> "", t |-> NoSnapshot, qty |-> 0, price |-> 0,
             status |-> "", pnl |-> 0, scan |-> <<>>, idx |-> 0,
             existing |-> NULL, ret |-> NULL, balance |-> 0, rows0 |-> 0,
             cur |-> NULL, raised |-> ""]

IdleSizer == [entry |-> 0, stop |-> 0, risk |-> NULL, vf |-> 0, qty |-> 0, done |-> FALSE]

\* the record of the last call of a read-only function: its arguments and result
NoCall == [fn |-> "none"]

Init ==
    /\ wallet = init_db
    /\ trades = <<>>
    /\ pc = [p \in Passes |-> "idle"]
    /\ loc = [p \in Passes |-> EmptyLoc]
    /\ sz = IdleSizer
    /\ call = NoCall
    /\ fails = 0

Quiet(p) == \A q \in Passes \ {p} : pc[q] = "idle"
AllIdle == \A q \in Passes : pc[q] = "idle"

\* passes that will still insert a row / write a close
Inserting == {q \in Passes : loc[q].op \in {"execute_trade", "place_or_update_trade"}
                              /\ pc[q] \notin {"idle", "done"}}
Closing == {q \in Passes : pc[q] \in {"ub_read", "ub_write", "update_trade_status"}
                            /\ loc[q].op \in {"execute_exit", "run_watchdog"}}

Goto(p, label, l) == /\ pc' = [pc EXCEPT ![p] = label]
                     /\ loc' = [loc EXCEPT ![p] = l]

\* the caller takes the return value; the pass is idle again
Return(p) ==
    /\ pc[p] = "done"
    /\ Goto(p, "idle", EmptyLoc)
    /\ UNCHANGED <<wallet, trades, sz, call, fails>>

\* ---------------------------------------------------------- update_balance
\* p = session.query(Portfolio).filter_by(strategy_name=...).first()
UB_Read(p) ==
    /\ pc[p] = "ub_read"
    /\ IF loc[p].wstrat \in DOMAIN wallet
       THEN Goto(p, "ub_write", [loc[p] EXCEPT !.readBal = wallet[loc[p].wstrat]])
       ELSE Goto(p, loc[p].after, loc[p])
    /\ UNCHANGED <<wallet, trades, sz, call, fails>>

\* p.balance += float(amount); session.commit()
UB_Write(p) ==
    /\ pc[p] = "ub_write"
    /\ wallet' = [wallet EXCEPT ![loc[p].wstrat] = loc[p].readBal + loc[p].amount]
    /\ Goto(p, loc[p].after, loc[p])
    /\ UNCHANGED <<trades, sz, call, fails>>

\* except: session.rollback()
UB_WriteFail(p) ==
    /\ pc[p] = "ub_write"
    /\ Goto(p, loc[p].after, loc[p])
    /\ fails' = fails + 1
    /\ UNCHANGED <<wallet, trades, sz, call>>

\* ----------------------------------------------------------- execute_trade
execute_trade_qty_no_resize(price, atr, vf, balance) ==
    calculate_position_size(price, price - STOP_ATR_MULT * atr,
                            Some(EXECUTE_TRADE_RISK_PCT), vf)

\* lines 12-29: risk params, sizing, wallet check and resize
execute_trade_qty(price, atr, vf, balance) ==
    LET stop_loss == price - STOP_ATR_MULT * atr
        qty0      == calculate_position_size(price, stop_loss, Some(EXECUTE_TRADE_RISK_PCT), vf)
    IN  IF qty0 * price > balance
        THEN IF balance > 0 /\ price > 0
             THEN (balance * RESIZE_PCT) \div (100 * price)
             ELSE 0
        ELSE qty0

ET_Begin(p, ticker, strategy, price, atr, vix_ok, vix) ==
    /\ pc[p] = "idle"
    /\ Len(trades) + Cardinality(Inserting) < MaxTrades
    /\ LET vf  == get_market_volatility(vix_ok, vix)
           qty == execute_trade_qty(price, atr, vf, get_current_balance(strategy))
           t   == [NoSnapshot EXCEPT !.ticker = ticker, !.strategy_name = strategy,
                                     !.entry_price = RatInt(price),
                                     !.target_price = price + TARGET_ATR_MULT * atr,
                                     !.stop_loss = price - STOP_ATR_MULT * atr,
                                     !.quantity = qty]
           l   == [EmptyLoc EXCEPT !.op = "execute_trade", !.t = t, !.qty = qty,
                                   !.price = price, !.rows0 = Len(trades),
                                   !.balance = get_current_balance(strategy)]
       IN  IF qty > 0
           THEN Goto(p, "ub_read", [l EXCEPT !.wstrat = strategy,
                                             !.amount = -(qty * price),
                                             !.after = "log_trade"])
           ELSE Goto(p, "done", [l EXCEPT !.ret = Some(0)])
    /\ UNCHANGED <<wallet, trades, sz, call, fails>>

\* log_trade: session.add(new_trade); session.commit()
ET_LogTrade(p) ==
    /\ pc[p] = "log_trade"
    /\ trades' = Append(trades, Trade(loc[p].t.ticker, loc[p].t.strategy_name,
                                      loc[p].t.entry_price, loc[p].t.target_price,
                                      loc[p].t.stop_loss, loc[p].qty))
    /\ Goto(p, "done", [loc[p] EXCEPT !.ret = Some(loc[p].qty)])
    /\ UNCHANGED <<wallet, sz, call, fails>>

\* log_trade: except Exception as e: print(...) -- execute_trade still returns qty
ET_LogTradeFail(p) ==
    /\ pc[p] = "log_trade"
    /\ Goto(p, "done", [loc[p] EXCEPT !.ret = Some(loc[p].qty)])
    /\ fails' = fails + 1
    /\ UNCHANGED <<wallet, trades, sz, call>>

\* ----------------------------------------------------- update_trade_status
\* datetime.now() as a logical clock: the latest exit_time written so far
RECURSIVE LatestExit(_)
LatestExit(i) == IF i = 0 THEN 0
                 ELSE Max(LatestExit(i - 1),
                          IF trades[i].exit_time = NULL THEN 0 ELSE trades[i].exit_time[1])
Clock == LatestExit(Len(trades))

update_trade_status_keeps_status(trade_id, status, pnl) ==
    IF trade_id \in 1..Len(trades)
    THEN [trades EXCEPT ![trade_id].exit_time = Some(Clock + 1),
                        ![trade_id].pnl = Some(pnl)]
    ELSE trades

update_trade_status(trade_id, status, pnl) ==
    IF trade_id \in 1..Len(trades)
    THEN [trades EXCEPT ![trade_id].status = status,
                        ![trade_id].exit_time = Some(Clock + 1),
                        ![trade_id].pnl = Some(pnl)]
    ELSE trades

UTS_Write(p) ==
    /\ pc[p] = "update_trade_status"
    /\ trades' = update_trade_status(loc[p].t.id, loc[p].status, loc[p].pnl)
    /\ IF loc[p].op = "run_watchdog"
       THEN Goto(p, "wd_loop", [loc[p] EXCEPT !.idx = @ + 1])
       ELSE Goto(p, "done", [loc[p] EXCEPT
                 !.ret = Some(<<loc[p].pnl, get_current_balance(loc[p].t.strategy_name)>>)])
    /\ UNCHANGED <<wallet, sz, call, fails>>

\* except: session.rollback()
UTS_Fail(p) ==
    /\ pc[p] = "update_trade_status"
    /\ IF loc[p].op = "run_watchdog"
       THEN Goto(p, "wd_loop", [loc[p] EXCEPT !.idx = @ + 1])
       ELSE Goto(p, "done", [loc[p] EXCEPT
                 !.ret = Some(<<loc[p].pnl, get_current_balance(loc[p].t.strategy_name)>>)])
    /\ fails' = fails + 1
    /\ UNCHANGED <<wallet, trades, sz, call>>

\* ------------------------------------------------------------ execute_exit
\* variant: the revenue is stored as pnl
exit_pnl_revenue(exit_price, entry_price, quantity) == exit_price * quantity

\* pnl = (exit_price - entry_price) * quantity, on the caller's arguments
exit_pnl(exit_price, entry_price, quantity) ==
    exit_price * quantity - RatTimes(entry_price, quantity)

exit_revenue(exit_price, quantity) == exit_price * quantity

\* the caller has read row trade_id and passes its fields
EX_Begin(p, trade_id, exit_price, status) ==
    /\ pc[p] = "idle"
    /\ trade_id \in 1..Len(trades)
    /\ Clock + Cardinality(Closing) < MaxCloseWrites
    /\ LET t == Snapshot(trade_id)
       IN  Goto(p, "ub_read",
                [EmptyLoc EXCEPT !.op = "execute_exit", !.t = t, !.price = exit_price,
                                 !.status = status,
                                 !.pnl = exit_pnl(exit_price, t.entry_price, t.quantity),
                                 !.wstrat = t.strategy_name,
                                 !.amount = exit_revenue(exit_price, t.quantity),
                                 !.after = "update_trade_status"])
    /\ UNCHANGED <<wallet, trades, sz, call, fails>>

\* ------------------------------------------------------------ run_watchdog
exit_decision_stop_first(current_price, target_price, stop_loss) ==
    IF current_price <= stop_loss THEN "STOP_HIT"
    ELSE IF current_price >= target_price THEN "TARGET_HIT"
    ELSE "NONE"

\* lines 78-80: target is tested first, then stop
exit_decision(current_price, target_price, stop_loss) ==
    IF current_price >= target_price THEN "TARGET_HIT"
    ELSE IF current_price <= stop_loss THEN "STOP_HIT"
    ELSE "NONE"

\* lines 65-70: no instrument key for the ticker, or get_live_price returns None
live_price(key_ok, price_ok, current_price) ==
    IF key_ok /\ price_ok THEN Some(current_price) ELSE NULL

scan_status_gap_as_zero(cur, t) ==
    exit_decision(IF cur = NULL THEN 0 ELSE cur[1], t.target_price, t.stop_loss)

\* lines 66-80: `continue` without a price, else the exit decision
scan_status(cur, t) ==
    IF cur = NULL THEN "NONE"
    ELSE exit_decision(cur[1], t.target_price, t.stop_loss)

RECURSIVE Snapshots(_)
Snapshots(ids) == IF ids = <<>> THEN <<>>
                  ELSE <<Snapshot(Head(ids))>> \o Snapshots(Tail(ids))

\* class UpstoxConnection: the methods of the object upstox_client
UpstoxConnectionMethods == {"set_access_token", "check_connection", "get_session"}

\* lines 47-53: `if upstox_client.fetch_token_from_db(): ... else: ... return`,
\* reached when check_connection() is False; the attribute lookup raises when
\* the method is missing, and no token is loaded when it is there
token_reload == IF "fetch_token_from_db" \in UpstoxConnectionMethods
                THEN "NoToken" ELSE "AttributeError"

WD_Begin_scans_unauthenticated(p, auth_ok) ==
    /\ pc[p] = "idle"
    /\ LET scan == Snapshots(SortedIds(get_open_trades(NULL)))
           l    == [EmptyLoc EXCEPT !.op = "run_watchdog",
                                    !.raised = IF auth_ok THEN "" ELSE token_reload]
       IN  IF scan = <<>> THEN Goto(p, "done", l)
           ELSE Goto(p, "wd_loop", [l EXCEPT !.scan = scan, !.idx = 1])
    /\ UNCHANGED <<wallet, trades, sz, call, fails>>

\* lines 43-59: authentication, then trades = get_open_trades(); auth_ok is
\* check_connection() with the token of the environment
WD_Begin(p, auth_ok) ==
    /\ pc[p] = "idle"
    /\ LET scan == Snapshots(SortedIds(get_open_trades(NULL)))
           l    == [EmptyLoc EXCEPT !.op = "run_watchdog"]
       IN  IF ~auth_ok THEN Goto(p, "done", [l EXCEPT !.raised = token_reload])
           ELSE IF scan = <<>> THEN Goto(p, "done", l)
           ELSE Goto(p, "wd_loop", [l EXCEPT !.scan = scan, !.idx = 1])
    /\ UNCHANGED <<wallet, trades, sz, call, fails>>

\* lines 64-91: one iteration of `for t in trades` up to the trigger
WD_Scan(p, key_ok, price_ok, current_price) ==
    /\ pc[p] = "wd_loop"
    /\ loc[p].idx <= Len(loc[p].scan)
    /\ LET t          == loc[p].scan[loc[p].idx]
           cur        == live_price(key_ok, price_ok, current_price)
           new_status == scan_status(cur, t)
       IN  IF new_status = "NONE"
           THEN Goto(p, "wd_loop", [loc[p] EXCEPT !.idx = @ + 1, !.cur = cur])
           ELSE /\ Clock + Cardinality(Closing) < MaxCloseWrites
                /\ Goto(p, "ub_read",
                        [loc[p] EXCEPT !.t = t, !.price = current_price, !.cur = cur,
                                       !.status = new_status,
                                       !.pnl = exit_pnl(current_price, t.entry_price, t.quantity),
                                       !.wstrat = DEFAULT_STRATEGY,
                                       !.amount = exit_revenue(current_price, t.quantity),
                                       !.after = "update_trade_status"])
    /\ UNCHANGED <<wallet, trades, sz, call, fails>>

\* line 100: the loop is exhausted
WD_End(p) ==
    /\ pc[p] = "wd_loop"
    /\ loc[p].idx > Len(loc[p].scan)
    /\ Goto(p, "done", loc[p])
    /\ UNCHANGED <<wallet, trades, sz, call, fails>>

\* --------------------------------------------------- place_or_update_trade
\* SELECT id, quantity, entry_price ... status = 'OPEN' LIMIT 1
OpenRows(ticker, strategy) ==
    {i \in 1..Len(trades) : /\ trades[i].ticker = ticker
                            /\ trades[i].strategy_name = strategy
                            /\ trades[i].status = "OPEN"}

PT_Begin(p, strategy, ticker, signal_qty, signal_price, target, stoploss) ==
    /\ pc[p] = "idle"
    /\ LET t == [NoSnapshot EXCEPT !.ticker = ticker, !.strategy_name = strategy,
                                   !.target_price = target, !.stop_loss = stoploss]
           l == [EmptyLoc EXCEPT !.op = "place_or_update_trade", !.t = t,
                                 !.qty = signal_qty, !.price = signal_price]
       IN  IF OpenRows(ticker, strategy) = {}
           THEN /\ Len(trades) + Cardinality(Inserting) < MaxTrades
                /\ Goto(p, "pt_write", l)
           ELSE \E i \in OpenRows(ticker, strategy) :
                 /\ trades[i].quantity + signal_qty <= MaxLots * MaxSignalQty
                 /\ Goto(p, "pt_write",
                         [l EXCEPT !.existing = Some(<<i, trades[i].quantity,
                                                       trades[i].entry_price>>)])
    /\ UNCHANGED <<wallet, trades, sz, call, fails>>

\* lines 30-37: weighted average of the old and the new fill
merge_price(old_qty, old_price, signal_qty, signal_price) ==
    LET total_cost_old == RatTimes(old_price, old_qty)
        total_cost_new == signal_qty * signal_price
        new_total_qty  == old_qty + signal_qty
    IN  IF new_total_qty > 0
        THEN Rat(total_cost_old + total_cost_new, new_total_qty)
        ELSE RatInt(signal_price)

\* class Trade: the columns of table trades that init_db creates
TradeColumns ==
    {"id", "ticker", "signal", "entry_price", "target_price", "stop_loss", "quantity",
     "status", "entry_time", "exit_time", "pnl", "reasoning", "strategy_name",
     "confidence"}

\* the columns the UPDATE of the merge assigns
MergeUpdateColumns ==
    {"quantity", "entry_price", "target_price", "stop_loss", "updated_at"}

\* the columns the INSERT of a new position names
InsertColumns ==
    {"strategy_name", "ticker", "quantity", "entry_price", "target_price", "stop_loss",
     "status", "signal", "entry_time"}

\* UPDATE ... WHERE id = :trade_id  /  INSERT ... 'OPEN'; conn.commit()
\* A statement that names a column the table does not have raises; the
\* except clause of the function prints the error and the row is untouched.
PT_Write(p) ==
    /\ pc[p] = "pt_write"
    /\ IF loc[p].existing # NULL
       THEN LET trade_id  == loc[p].existing[1][1]
                old_qty   == loc[p].existing[1][2]
                old_price == loc[p].existing[1][3]
            IN  IF MergeUpdateColumns \subseteq TradeColumns
                THEN trades' = [trades EXCEPT
                        ![trade_id].quantity = old_qty + loc[p].qty,
                        ![trade_id].entry_price =
                            merge_price(old_qty, old_price, loc[p].qty, loc[p].price),
                        ![trade_id].target_price = loc[p].t.target_price,
                        ![trade_id].stop_loss = loc[p].t.stop_loss]
                ELSE trades' = trades
       ELSE IF InsertColumns \subseteq TradeColumns
            THEN trades' = Append(trades, Trade(loc[p].t.ticker, loc[p].t.strategy_name,
                                                RatInt(loc[p].price), loc[p].t.target_price,
                                                loc[p].t.stop_loss, loc[p].qty))
            ELSE trades' = trades
    /\ Goto(p, "done", loc[p])
    /\ UNCHANGED <<wallet, sz, call, fails>>

\* except Exception as e: print(...)
PT_WriteFail(p) ==
    /\ pc[p] = "pt_write"
    /\ Goto(p, "done", loc[p])
    /\ fails' = fails + 1
    /\ UNCHANGED <<wallet, trades, sz, call>>

\* ---------------------------------------------------- validate_trade_setup
\* MIN_PRICE_DIFF_PERCENT = 0.5, as the fraction 1/2
MIN_PRICE_DIFF_PERCENT == [n |-> 1, d |-> 2]

\* ACCOUNT_SIZE * MAX_POSITION_ALLOCATION
max_allowed_rupees == (ACCOUNT_SIZE * MAX_POSITION_ALLOCATION_PCT) \div 100

Verdict(is_allowed, final_qty, message) ==
    [is_allowed |-> is_allowed, final_qty |-> final_qty, message |-> message]

price_noise_inclusive(signal_price, last_entry) ==
    100 * Abs(signal_price * last_entry.d - last_entry.n) * MIN_PRICE_DIFF_PERCENT.d
        <= MIN_PRICE_DIFF_PERCENT.n * last_entry.n

\* abs((signal_price - last_entry) / last_entry) * 100 < MIN_PRICE_DIFF_PERCENT,
\* for last_entry > 0, multiplied out
price_noise(signal_price, last_entry) ==
    100 * Abs(signal_price * last_entry.d - last_entry.n) * MIN_PRICE_DIFF_PERCENT.d
        < MIN_PRICE_DIFF_PERCENT.n * last_entry.n

\* int(remaining_budget / signal_price) with
\* remaining_budget = max_allowed_rupees - current_qty * last_entry
adjusted_qty_no_floor(current_qty, last_entry, signal_price) ==
    ((max_allowed_rupees * last_entry.d - current_qty * last_entry.n)
        \div (signal_price * last_entry.d)) + 1

adjusted_qty(current_qty, last_entry, signal_price) ==
    (max_allowed_rupees * last_entry.d - current_qty * last_entry.n)
        \div (signal_price * last_entry.d)

\* existing is the row the SELECT fetched: NULL or Some(<<quantity, entry_price>>)
validate_trade_setup(existing, signal_price, signal_qty) ==
    IF existing = NULL THEN Verdict(TRUE, signal_qty, "Fresh Entry")
    ELSE LET current_qty == existing[1][1]
             last_entry  == existing[1][2]
             \* amounts times last_entry.d, to stay in integers
             current_invested == current_qty * last_entry.n
             new_invested     == signal_qty * signal_price * last_entry.d
             ceiling          == max_allowed_rupees * last_entry.d
         IN  IF last_entry.n = 0
             THEN Verdict(FALSE, 0, "Error in validation")
             ELSE IF price_noise(signal_price, last_entry)
             THEN Verdict(FALSE, 0, "Price noise")
             ELSE IF current_invested >= ceiling
             THEN Verdict(FALSE, 0, "Max Allocation Reached")
             ELSE IF current_invested + new_invested > ceiling
             THEN IF signal_price = 0
                  THEN Verdict(FALSE, 0, "Error in validation")
                  ELSE IF adjusted_qty(current_qty, last_entry, signal_price) > 0
                  THEN Verdict(TRUE, adjusted_qty(current_qty, last_entry, signal_price),
                               "Capped Quantity")
                  ELSE Verdict(FALSE, 0, "No Budget Left")
             ELSE Verdict(TRUE, signal_qty, "Averaging/Pyramiding")

\* one call: the SELECT ... LIMIT 1 of the OPEN row, then the checks
VT_Call(strategy, ticker, signal_price, signal_qty) ==
    /\ \E existing \in IF OpenRows(ticker, strategy) = {} THEN {NULL}
                       ELSE {Some(<<trades[i].quantity, trades[i].entry_price>>) :
                                i \in OpenRows(ticker, strategy)} :
          call' = [fn |-> "validate_trade_setup", strategy |-> strategy,
                   ticker |-> ticker, signal_price |-> signal_price,
                   signal_qty |-> signal_qty, existing |-> existing,
                   ret |-> validate_trade_setup(existing, signal_price, signal_qty)]
    /\ UNCHANGED <<wallet, trades, pc, loc, sz, fails>>

\* -------------------------------------------------- check_portfolio_health
MAX_SECTOR_EXPOSURE == 2
MAX_POSITIONS_PER_STRATEGY == 5

\* what Yahoo Finance reports as the sector of a ticker
SectorOf ==
    [t \in {"TCS", "INFY", "WIPRO", "HCLTECH", "SBIN", "RELIANCE"} |->
        CASE t \in {"TCS", "INFY", "WIPRO", "HCLTECH"} -> "Technology"
          [] t = "SBIN" -> "Financial Services"
          [] OTHER -> "Energy"]

\* get_sector: 'Unknown' when the lookup fails or carries no sector; unknown is
\* the set of tickers for which that happens during the call
get_sector(ticker, unknown) ==
    IF ticker \in unknown \/ ticker \notin DOMAIN SectorOf THEN "Unknown"
    ELSE SectorOf[ticker]

\* get_open_trades returns query.all(), a list of Trade instances; a Trade has
\* attributes (t.ticker, as run_watchdog reads it) and no item access
RowsAreDicts == FALSE

Health(allowed, reason, lookups) ==
    [raised |-> "", allowed |-> allowed, reason |-> reason, lookups |-> lookups]

\* the call ends in an exception: no (allowed, reason) pair is returned
Raised(exception) ==
    [raised |-> exception, allowed |-> FALSE, reason |-> "", lookups |-> 0]

check_portfolio_health(new_candidate, strategy_name, unknown) ==
    LET open_trades == get_open_trades(Some(strategy_name))
        candidate_sector == get_sector(new_candidate, unknown)
        same_sector_count ==
            Cardinality({t \in open_trades :
                            get_sector(trades[t].ticker, unknown) = candidate_sector})
    IN  IF Cardinality(open_trades) >= MAX_POSITIONS_PER_STRATEGY
        THEN Health(FALSE, "Strategy is Full", 0)
        \* first iteration of `for t in open_trades`: t['ticker']
        ELSE IF open_trades # {} /\ ~RowsAreDicts
        THEN Raised("TypeError")
        ELSE IF \E t \in open_trades : trades[t].ticker = new_candidate
        THEN Health(FALSE, "already holds", 0)
        ELSE IF candidate_sector = "Unknown"
        THEN Health(TRUE, "OK (Sector Unknown)", 1)
        ELSE IF same_sector_count >= MAX_SECTOR_EXPOSURE
        THEN Health(FALSE, "Max sector exposure reached", 1 + Cardinality(open_trades))
        ELSE Health(TRUE, "OK", 1 + Cardinality(open_trades))

CPH_Call(new_candidate, strategy_name, unknown) ==
    /\ call' = [fn |-> "check_portfolio_health", new_candidate |-> new_candidate,
                strategy_name |-> strategy_name, unknown |-> unknown,
                ret |-> check_portfolio_health(new_candidate, strategy_name, unknown),
                \* history only: the ledger the call saw
                rows |-> Len(trades), balance |-> get_current_balance(strategy_name)]
    /\ UNCHANGED <<wallet, trades, pc, loc, sz, fails>>

\* One candidate of a pass, in the order of the data flow Signal Oracle ->
\* Risk Sizer -> Portfolio Admission Gate -> Trade Ledger: the gate decides,
\* and execute_trade sizes and opens the position of an admitted candidate.
AG_Begin(p, ticker, strategy, price, atr, vix_ok, vix, unknown) ==
    LET r == check_portfolio_health(ticker, strategy, unknown)
    IN  IF r.raised = "" /\ r.allowed
        THEN ET_Begin(p, ticker, strategy, price, atr, vix_ok, vix)
        ELSE /\ pc[p] = "idle"
             /\ Goto(p, "done", [EmptyLoc EXCEPT !.op = "admission", !.status = r.reason,
                                                 !.raised = r.raised])
             /\ UNCHANGED <<wallet, trades, sz, call, fails>>

\* The tables the gate is called on: positions placed by place_or_update_trade
\* (10 @ 100, target 120, stop 90, one per ticker and strategy, in the order of
\* AdmSlots), some of them since closed by the Exit Monitor at 120.
AdmSlots ==
    <<  <<"TCS", "STRATEGY_MOMENTUM">>, <<"TCS", "STRATEGY_MEAN_REVERSION">>,
        <<"INFY", "STRATEGY_MOMENTUM">>, <<"INFY", "STRATEGY_MEAN_REVERSION">>,
        <<"WIPRO", "STRATEGY_MOMENTUM">>, <<"HCLTECH", "STRATEGY_MOMENTUM">>,
        <<"SBIN", "STRATEGY_MOMENTUM">>, <<"RELIANCE", "STRATEGY_MOMENTUM">>  >>

AdmStates(slot) ==
    IF slot[2] = "STRATEGY_MOMENTUM" THEN {"", "OPEN", "TARGET_HIT"} ELSE {"", "OPEN"}

RECURSIVE AdmTable(_, _)
AdmTable(a, n) ==
    IF n = 0 THEN <<>>
    ELSE LET rest == AdmTable(a, n - 1)
             row  == Trade(AdmSlots[n][1], AdmSlots[n][2], RatInt(100), 120, 90, 10)
             closed == Cardinality({i \in 1..Len(rest) : rest[i].status # "OPEN"})
         IN  IF a[n] = "" THEN rest
             ELSE IF a[n] = "OPEN" THEN Append(rest, row)
             ELSE Append(rest, [row EXCEPT !.status = "TARGET_HIT",
                                           !.exit_time = Some(closed + 1),
                                           !.pnl = Some(exit_pnl(120, RatInt(100), 10))])

InitAdmission ==
    /\ wallet = init_db
    /\ \E a \in [1..Len(AdmSlots) -> {"", "OPEN", "TARGET_HIT"}] :
          /\ \A n \in 1..Len(AdmSlots) : a[n] \in AdmStates(AdmSlots[n])
          /\ trades = AdmTable(a, Len(AdmSlots))
    /\ pc = [p \in Passes |-> "idle"]
    /\ loc = [p \in Passes |-> EmptyLoc]
    /\ sz = IdleSizer
    /\ call = NoCall
    /\ fails = 0

AdmUnknown(new_candidate) == {{}, {new_candidate}, {"TCS"}}

\* one call on each table: the gate only reads
NextAdmission ==
    /\ call = NoCall
    /\ \E new_candidate \in DOMAIN SectorOf,
          strategy_name \in {"STRATEGY_MOMENTUM", "STRATEGY_MEAN_REVERSION"} :
          \E unknown \in AdmUnknown(new_candidate) :
             CPH_Call(new_candidate, strategy_name, unknown)
SpecAdmission == InitAdmission /\ [][NextAdmission]_vars

\* -------------------------------------------------------------- Risk Sizer
SizerPrices == {100, 110, 1000} \cup {5000 * k : k \in 1..MaxSizerPriceSteps}
RiskPcts == {NULL, Some(1), Some(2), Some(5)}

InitSizer ==
    /\ wallet = init_db
    /\ trades = <<>>
    /\ pc = [p \in Passes |-> "idle"]
    /\ loc = [p \in Passes |-> EmptyLoc]
    /\ sz \in [entry : SizerPrices, stop : SizerPrices, risk : RiskPcts,
               vf : VolFactors, qty : {0}, done : {FALSE}]
    /\ call = NoCall
    /\ fails = 0

SizerApply ==
    /\ ~sz.done
    /\ sz' = [sz EXCEPT !.qty = calculate_position_size(sz.entry, sz.stop, sz.risk, sz.vf),
                        !.done = TRUE]
    /\ UNCHANGED ledger

\* the volatility read on its own: vix_ok is FALSE when the download raises or
\* returns an empty frame, vix is the last close otherwise
MaxVix == 40

InitVolatility ==
    /\ wallet = init_db
    /\ trades = <<>>
    /\ pc = [p \in Passes |-> "idle"]
    /\ loc = [p \in Passes |-> EmptyLoc]
    /\ sz = IdleSizer
    /\ call \in [fn : {"get_market_volatility"}, vix_ok : BOOLEAN, vix : 0..MaxVix,
                 entry : {100}, stop : {90, 100}, ret : {0}, qty : {0}, done : {FALSE}]
    /\ fails = 0

\* lines 37-38 of calculate_position_size: vol_factor = get_market_volatility()
VolatilityApply ==
    /\ call.fn = "get_market_volatility"
    /\ ~call.done
    /\ LET vol_factor == get_market_volatility(call.vix_ok, call.vix)
       IN  call' = [call EXCEPT !.ret = vol_factor,
                                !.qty = calculate_position_size(call.entry, call.stop,
                                                                NULL, vol_factor),
                                !.done = TRUE]
    /\ UNCHANGED <<wallet, trades, pc, loc, sz, fails>>

SpecVolatility == InitVolatility /\ [][VolatilityApply]_vars

\* ---------------------------------------------------------- specifications
Inputs ==
    [tickers |-> {"TCS"}, strategies |-> OpStrategies, et_prices |-> {100},
     prices |-> {100}, atrs |-> Atrs, vix |-> {12}, targets |-> {120},
     exit_prices |-> {120}, statuses |-> {"CLOSED"}, live_prices |-> LivePrices]
InputsOverlap ==
    [tickers |-> {"TCS"}, strategies |-> {"STRATEGY_MOMENTUM"}, et_prices |-> {100},
     prices |-> {110}, atrs |-> {5}, vix |-> {12}, targets |-> {120},
     exit_prices |-> {120}, statuses |-> {"CLOSED"}, live_prices |-> {90, 120}]
InputsFail == InputsOverlap

Begin(p, I) ==
    \/ \E ticker \in I.tickers, strategy \in I.strategies, price \in I.et_prices,
          atr \in I.atrs, vix_ok \in BOOLEAN, vix \in I.vix :
          ET_Begin(p, ticker, strategy, price, atr, vix_ok, vix)
    \/ \E trade_id \in 1..MaxTrades, exit_price \in I.exit_prices, status \in I.statuses :
          EX_Begin(p, trade_id, exit_price, status)
    \/ \E auth_ok \in BOOLEAN : WD_Begin(p, auth_ok)
    \/ \E strategy \in I.strategies, ticker \in I.tickers, signal_qty \in SignalQtys,
          signal_price \in I.prices, target \in I.targets, stoploss \in Stops :
          PT_Begin(p, strategy, ticker, signal_qty, signal_price, target, stoploss)

Step(p, I) ==
    \/ UB_Read(p)
    \/ UB_Write(p)
    \/ ET_LogTrade(p)
    \/ UTS_Write(p)
    \/ \E key_ok \in BOOLEAN, price_ok \in BOOLEAN, current_price \in I.live_prices :
          WD_Scan(p, key_ok, price_ok, current_price)
    \/ WD_End(p)
    \/ PT_Write(p)
    \/ Return(p)

\* a statement of the pass raises; the handler of the function swallows it
Fail(p) ==
    /\ fails < MaxFailures
    /\ \/ UB_WriteFail(p)
       \/ ET_LogTradeFail(p)
       \/ UTS_Fail(p)
       \/ PT_WriteFail(p)

\* passes do not overlap, every statement succeeds
Next == \E p \in {1} : Begin(p, Inputs) \/ Step(p, Inputs)
Spec == Init /\ [][Next]_vars

\* passes may overlap (a manual run during a scheduled one)
NextOverlap == \E p \in Passes : Begin(p, InputsOverlap) \/ Step(p, InputsOverlap)
SpecOverlap == Init /\ [][NextOverlap]_vars

\* passes do not overlap, a database write may fail
NextFail == \E p \in {1} : Begin(p, InputsFail) \/ Step(p, InputsFail) \/ Fail(p)
SpecFail == Init /\ [][NextFail]_vars

\* passes do not overlap; positions whose target is at or below their stop
\* are placed too, so that one price can meet both exit conditions
InputsScan ==
    [tickers |-> {"TCS"}, strategies |-> {"STRATEGY_MOMENTUM"}, et_prices |-> {100},
     prices |-> {100}, atrs |-> {5}, vix |-> {12}, targets |-> {90, 120},
     exit_prices |-> {120}, statuses |-> {"CLOSED"}, live_prices |-> LivePrices]
NextScan == \E p \in {1} : Begin(p, InputsScan) \/ Step(p, InputsScan)
SpecScan == Init /\ [][NextScan]_vars

\* passes do not overlap; a share at 90000 leaves a wallet that cannot pay
\* for the 200 shares at 100 the sizer asks for next
InputsResize ==
    [tickers |-> {"TCS"}, strategies |-> {"STRATEGY_MOMENTUM"}, et_prices |-> {100, 90000},
     prices |-> {100}, atrs |-> {5}, vix |-> {12}, targets |-> {120},
     exit_prices |-> {120}, statuses |-> {"CLOSED"}, live_prices |-> {90, 120}]
NextResize == \E p \in {1} : Begin(p, InputsResize) \/ Step(p, InputsResize)
SpecResize == Init /\ [][NextResize]_vars

\* candidates of one strategy handled one after the other, and calls of the
\* gate between them
CandidateTickers == {"TCS", "INFY", "SBIN"}
NextCandidates ==
    \/ \E ticker \in CandidateTickers, unknown \in {{}, {"SBIN"}} :
          AG_Begin(1, ticker, "STRATEGY_MOMENTUM", 100, 5, TRUE, 12, unknown)
    \/ UB_Read(1)
    \/ UB_Write(1)
    \/ ET_LogTrade(1)
    \/ Return(1)
    \/ \E new_candidate \in CandidateTickers, unknown \in {{}, {"SBIN"}} :
          CPH_Call(new_candidate, "STRATEGY_MOMENTUM", unknown)
SpecCandidates == Init /\ [][NextCandidates]_vars

\* the sizer on its own, over every input of the bounded sets
SpecSizer == InitSizer /\ [][SizerApply]_vars

\* signals on one position, each validated or placed: no pass overlaps
AvgPrices == {100, 110, 200, 201}
AvgQtys == {10, 100, 199}
NextAveraging ==
    \/ \E signal_qty \in AvgQtys, signal_price \in AvgPrices, target \in Targets :
          PT_Begin(1, "STRATEGY_MOMENTUM", "TCS", signal_qty, signal_price, target, 90)
    \/ PT_Write(1)
    \/ Return(1)
    \/ \E signal_qty \in AvgQtys, signal_price \in AvgPrices :
          VT_Call("STRATEGY_MOMENTUM", "TCS", signal_price, signal_qty)
SpecAveraging == Init /\ [][NextAveraging]_vars

\* ================================================================== claims
TotalCash == SumSet(wallet, DOMAIN wallet)
InitialTotal == SumSet(init_db, DOMAIN init_db)
OpenCostBasis ==
    SumSeq([i \in 1..Len(trades) |->
              IF trades[i].status = "OPEN"
              THEN RatTimes(trades[i].entry_price, trades[i].quantity) ELSE 0],
           Len(trades))
RealizedPnl ==
    SumSeq([i \in 1..Len(trades) |->
              IF trades[i].status # "OPEN" /\ trades[i].pnl # NULL
              THEN trades[i].pnl[1] ELSE 0],
           Len(trades))

\* C1: between passes, the cash of all wallets plus the cost basis of all OPEN
\* trades equals the seeded total plus the realized pnl of the closed trades.
C1_WalletConservation ==
    AllIdle => TotalCash + OpenCostBasis = InitialTotal + RealizedPnl

\* C2: when execute_trade returns, either it returned a positive quantity, the
\* wallet is debited by quantity x price and the OPEN row is written, or it
\* returned 0 and neither the wallet nor the trades table has changed.
C2_OpenIsAtomic ==
    \A p \in Passes :
        (pc[p] = "done" /\ loc[p].op = "execute_trade") =>
            LET l == loc[p]
                s == l.t.strategy_name
            IN  \/ /\ l.ret # Some(0)
                   /\ wallet[s] = l.balance - l.qty * l.price
                   /\ Len(trades) = l.rows0 + 1
                   /\ trades[Len(trades)].status = "OPEN"
                   /\ trades[Len(trades)].quantity = l.qty
                \/ /\ l.ret = Some(0)
                   /\ wallet[s] = l.balance
                   /\ Len(trades) = l.rows0

\* C3: a trade that has left OPEN is never written again, and a close attempt
\* on it credits no wallet.
C3_CloseIsOneWay ==
    [][/\ \A i \in 1..Len(trades) :
             trades[i].status # "OPEN" => trades'[i] = trades[i]
       /\ \A p \in Passes :
             (/\ loc[p].op \in {"execute_exit", "run_watchdog"}
              /\ pc[p] = "ub_write" /\ pc'[p] # "ub_write"
              /\ trades[loc[p].t.id].status # "OPEN") => wallet' = wallet]_vars

\* C4: when overlapping Exit Monitor scans hold the same trade, the status
\* write of a scan that finds the trade already closed changes nothing.
C4_ScanSettlesOnce ==
    [][\A p \in Passes :
          (/\ loc[p].op = "run_watchdog"
           /\ pc[p] = "update_trade_status" /\ pc'[p] # "update_trade_status"
           /\ trades[loc[p].t.id].status # "OPEN") => trades' = trades]_vars

\* C5: when two overlapping execute_trade passes that saw the same balance have
\* both finished update_balance on one wallet, the balance is that balance plus
\* both amounts.
C5_NoLostUpdate ==
    \A p, q \in Passes :
        (/\ p # q
         /\ loc[p].op = "execute_trade" /\ loc[q].op = "execute_trade"
         /\ pc[p] \in {"log_trade", "done"} /\ pc[q] \in {"log_trade", "done"}
         /\ loc[p].qty > 0 /\ loc[q].qty > 0
         /\ loc[p].wstrat = loc[q].wstrat
         /\ loc[p].balance = loc[q].balance)
        => wallet[loc[p].wstrat] = loc[p].balance + loc[p].amount + loc[q].amount

\* C6: the update_balance call of a close (execute_exit or Exit Monitor) adds
\* exit price x quantity to the wallet of the trade's strategy and changes no
\* other wallet.
C6_CloseCreditsOwner ==
    [][\A p \in Passes :
          (/\ loc[p].op \in {"execute_exit", "run_watchdog"}
           /\ pc[p] \in {"ub_read", "ub_write"}
           /\ pc'[p] = "update_trade_status")
          => LET row == trades[loc[p].t.id]
             IN  wallet' = [wallet EXCEPT ![row.strategy_name] =
                                              @ + loc[p].price * row.quantity]]_vars

\* C7: the step that takes a trade out of OPEN stores the terminal status, a
\* non-null exit_time and pnl = (exit price - entry_price) x quantity of the row.
C7_CloseStoresPnl ==
    [][\A i \in 1..Len(trades) :
          (trades[i].status = "OPEN" /\ trades'[i].status # "OPEN") =>
              \E p \in Passes :
                  /\ pc[p] = "update_trade_status"
                  /\ loc[p].t.id = i
                  /\ trades'[i].status = loc[p].status
                  /\ trades'[i].status \in {"TARGET_HIT", "STOP_HIT", "CLOSED"}
                  /\ trades'[i].exit_time # NULL
                  /\ trades'[i].quantity = trades[i].quantity
                  /\ trades'[i].entry_price = trades[i].entry_price
                  /\ trades'[i].pnl # NULL
                  /\ trades'[i].pnl[1] * trades[i].entry_price.d =
                        (loc[p].price * trades[i].entry_price.d - trades[i].entry_price.n)
                            * trades[i].quantity]_vars

\* 10 shares opened at 100 and closed at 120: pnl 200
C7_Witness ==
    \E i \in 1..Len(trades) :
        /\ trades[i].quantity = 10 /\ trades[i].entry_price = RatInt(100)
        /\ trades[i].status = "CLOSED" /\ trades[i].exit_time # NULL
        /\ trades[i].pnl = Some(200)

SizerValid == sz.done /\ sz.entry > sz.stop /\ sz.stop > 0
SizerRiskPct == IF sz.risk # NULL THEN sz.risk[1] ELSE RISK_PER_TRADE_PCT

\* C8: for entry > stop > 0 the sized quantity risks at most
\* ACCOUNT_SIZE x risk_fraction: q x |entry - stop| <= ACCOUNT_SIZE x risk.
C8_SizerRiskBound ==
    SizerValid => sz.qty * Abs(sz.entry - sz.stop) * 100 <= ACCOUNT_SIZE * SizerRiskPct

\* C9: for entry > stop > 0 the sized quantity costs at most 20% of the
\* account: q x entry <= ACCOUNT_SIZE x 0.2.
C9_SizerCapitalBound ==
    SizerValid => sz.qty * sz.entry * 100 <= ACCOUNT_SIZE * MAX_POSITION_ALLOCATION_PCT

\* C10: calculate_position_size returns 0 whenever entry = stop.
C10_SizerZeroRisk ==
    (sz.done /\ sz.entry = sz.stop) => sz.qty = 0

C10_Witness ==
    sz.done /\ sz.entry = sz.stop /\ sz.risk = Some(5) /\ sz.vf = 50 /\ sz.qty = 0

\* C11: when place_or_update_trade finds an OPEN trade of the ticker and the
\* strategy, the write leaves that trade with quantity old + signal and with the
\* weighted average (old_qty x old_price + signal_qty x signal_price) /
\* (old_qty + signal_qty) as entry price, and adds no row.
C11_WeightedAverageMerge ==
    [][\A p \in Passes :
         (pc[p] = "pt_write" /\ pc'[p] = "done" /\ loc[p].existing # NULL) =>
             LET trade_id  == loc[p].existing[1][1]
                 old_qty   == loc[p].existing[1][2]
                 old_price == loc[p].existing[1][3]
             IN  /\ Len(trades') = Len(trades)
                 /\ trades'[trade_id].quantity = old_qty + loc[p].qty
                 /\ trades'[trade_id].entry_price =
                        Rat(old_qty * old_price.n + loc[p].qty * loc[p].price * old_price.d,
                            (old_qty + loc[p].qty) * old_price.d)]_vars

ValidatedAdd(c) == c.fn = "validate_trade_setup" /\ c.existing # NULL
CallLastEntry(c) == c.existing[1][2]
CallInvested(c) == c.existing[1][1] * CallLastEntry(c).n
CallCeiling(c) == 20000 * CallLastEntry(c).d
CallWithinHalfPercent(c) ==
    200 * Abs(c.signal_price * CallLastEntry(c).d - CallLastEntry(c).n) < CallLastEntry(c).n

\* C12: a call of validate_trade_setup on an existing OPEN position changes
\* neither the trades nor the wallets; it is rejected with quantity 0 and the
\* price-noise reason when the signal price is less than 0.5% away from the
\* last entry price, and a signal 0.5% or more away is not rejected for noise.
C12_NoiseGuard ==
    [][(call' # call /\ ValidatedAdd(call') /\ CallLastEntry(call').n > 0) =>
          /\ trades' = trades
          /\ wallet' = wallet
          /\ CallWithinHalfPercent(call') =>
                call'.ret = Verdict(FALSE, 0, "Price noise")
          /\ ~CallWithinHalfPercent(call') => call'.ret.message # "Price noise"]_vars

C12_Witness ==
    /\ ValidatedAdd(call)
    /\ call.signal_price # CallLastEntry(call).n
    /\ CallWithinHalfPercent(call)
    /\ call.ret.message = "Price noise"

\* C13: on an existing OPEN position, an approved quantity q keeps
\* old_qty x old_price + q x signal_price within 20000; the add is rejected when
\* old_qty x old_price is 20000 or more; and when the full signal quantity would
\* cross 20000, q is floor((20000 - old_qty x old_price) / signal_price), the add
\* being rejected when that is 0.
C13_AllocationCap ==
    ValidatedAdd(call) =>
        LET d == CallLastEntry(call).d
            q == call.ret.final_qty
            room == (CallCeiling(call) - CallInvested(call)) \div (call.signal_price * d)
        IN  /\ call.ret.is_allowed =>
                 /\ q > 0
                 /\ CallInvested(call) + q * call.signal_price * d <= CallCeiling(call)
            /\ ~call.ret.is_allowed => q = 0
            /\ CallInvested(call) >= CallCeiling(call) => ~call.ret.is_allowed
            /\ ( /\ ~CallWithinHalfPercent(call)
                 /\ CallInvested(call) < CallCeiling(call)
                 /\ CallInvested(call) + call.signal_qty * call.signal_price * d
                        > CallCeiling(call) ) =>
                   IF room > 0 THEN call.ret.is_allowed /\ q = room
                   ELSE ~call.ret.is_allowed

C13_Witness ==
    /\ ValidatedAdd(call)
    /\ call.ret.message = "Capped Quantity"
    /\ call.ret.final_qty < call.signal_qty

Gate(c) == c.fn = "check_portfolio_health"
OpenOf(strategy) ==
    {i \in 1..Len(trades) : trades[i].status = "OPEN" /\ trades[i].strategy_name = strategy}
HoldsOpen(c) == \E i \in OpenOf(c.strategy_name) : trades[i].ticker = c.new_candidate
SectorKnown(c, ticker) == ticker \notin c.unknown /\ ticker \in DOMAIN SectorOf
SameSectorOpen(c) ==
    {i \in OpenOf(c.strategy_name) : SectorOf[trades[i].ticker] = SectorOf[c.new_candidate]}

\* C14: a call of check_portfolio_health for a strategy that has 5 or more OPEN
\* trades is rejected, whatever the candidate, without any sector lookup; a
\* strategy with fewer than 5 OPEN trades of its own is never rejected as full,
\* however many OPEN trades the other strategies have.
C14_CapacityRule ==
    Gate(call) =>
        /\ Cardinality(OpenOf(call.strategy_name)) >= 5 =>
              /\ call.ret.raised = ""
              /\ ~call.ret.allowed
              /\ call.ret.reason = "Strategy is Full"
              /\ call.ret.lookups = 0
        /\ Cardinality(OpenOf(call.strategy_name)) < 5 =>
              call.ret.reason # "Strategy is Full"

C14_Witness ==
    /\ Gate(call)
    /\ Cardinality(OpenOf(call.strategy_name)) = 5
    /\ ~HoldsOpen(call)
    /\ call.ret.reason = "Strategy is Full"

C14_WitnessOthers ==
    /\ Gate(call)
    /\ Cardinality(OpenOf(call.strategy_name)) < 5
    /\ Cardinality({i \in 1..Len(trades) : trades[i].status = "OPEN"}) >= 5

\* C15: a candidate whose sector and whose strategy's OPEN tickers' sectors all
\* resolve, for a strategy below capacity that does not hold the candidate,
\* gets an answer, and is rejected exactly when the strategy has 2 or more
\* OPEN trades of the candidate's sector.
C15_SectorConcentration ==
    ( /\ Gate(call)
      /\ Cardinality(OpenOf(call.strategy_name)) < 5
      /\ ~HoldsOpen(call)
      /\ SectorKnown(call, call.new_candidate)
      /\ \A i \in OpenOf(call.strategy_name) : SectorKnown(call, trades[i].ticker) ) =>
        /\ call.ret.raised = ""
        /\ call.ret.allowed <=> Cardinality(SameSectorOpen(call)) < 2

\* C19: every call of check_portfolio_health returns with a non-empty reason;
\* the reason is that of the first failing rule in the order capacity,
\* duplicate ticker, sector concentration; and the candidate is allowed only
\* if none of the three rules fails.
C19_RuleOrder ==
    Gate(call) =>
        /\ call.ret.raised = ""
        /\ call.ret.reason # ""
        /\ IF Cardinality(OpenOf(call.strategy_name)) >= 5
           THEN call.ret.reason = "Strategy is Full"
           ELSE IF HoldsOpen(call)
           THEN call.ret.reason = "already holds"
           ELSE call.ret.reason \in {"Max sector exposure reached", "OK", "OK (Sector Unknown)"}
        /\ call.ret.allowed =>
              /\ Cardinality(OpenOf(call.strategy_name)) < 5
              /\ ~HoldsOpen(call)
              /\ SectorKnown(call, call.new_candidate) =>
                    Cardinality({i \in SameSectorOpen(call) :
                                    SectorKnown(call, trades[i].ticker)}) < 2

\* C20: for a strategy below capacity, check_portfolio_health rejects the
\* candidate as a duplicate when the strategy has an OPEN trade of that ticker,
\* and never does so because of another strategy's OPEN trade of the ticker or
\* because of a trade of the strategy that is no longer OPEN.
C20_DuplicatePerStrategy ==
    (Gate(call) /\ Cardinality(OpenOf(call.strategy_name)) < 5) =>
        IF HoldsOpen(call)
        THEN /\ call.ret.raised = ""
             /\ ~call.ret.allowed
             /\ call.ret.reason = "already holds"
        ELSE call.ret.reason # "already holds"

\* a step of pass p that is one iteration of the scan of run_watchdog
ScanStep(p) ==
    /\ pc[p] = "wd_loop"
    /\ loc[p].idx <= Len(loc[p].scan)
    /\ <<pc[p], loc[p]>>' # <<pc[p], loc[p]>>

\* C16: an iteration of the scan that obtained the price c starts the close
\* with TARGET_HIT when c >= target_price, otherwise with STOP_HIT when
\* c <= stop_loss, and otherwise moves on without touching the trade; when
\* both conditions hold the status is TARGET_HIT.
C16_ExitDecision ==
    [][\A p \in Passes :
         (ScanStep(p) /\ loc'[p].cur # NULL) =>
             LET c == loc'[p].cur[1]
                 t == loc[p].scan[loc[p].idx]
             IN  IF c >= t.target_price
                 THEN pc'[p] = "ub_read" /\ loc'[p].status = "TARGET_HIT" /\ loc'[p].t = t
                 ELSE IF c <= t.stop_loss
                 THEN pc'[p] = "ub_read" /\ loc'[p].status = "STOP_HIT" /\ loc'[p].t = t
                 ELSE /\ pc'[p] = "wd_loop"
                      /\ loc'[p].idx = loc[p].idx + 1
                      /\ trades' = trades]_vars

\* a price that is at once at or above the target and at or below the stop
C16_Witness ==
    \E p \in Passes :
        /\ loc[p].op = "run_watchdog"
        /\ pc[p] = "ub_read"
        /\ loc[p].cur # NULL
        /\ loc[p].cur[1] >= loc[p].t.target_price
        /\ loc[p].cur[1] <= loc[p].t.stop_loss
        /\ loc[p].status = "TARGET_HIT"

\* C18: an iteration of the scan that obtained no price (no instrument key, or
\* no live price) changes no trade and no wallet, ends without an error and
\* moves on to the next trade of the same scan.
C18_DataGapSkips ==
    [][\A p \in Passes :
         (ScanStep(p) /\ loc'[p].cur = NULL) =>
             /\ trades' = trades
             /\ wallet' = wallet
             /\ pc'[p] = "wd_loop"
             /\ loc'[p].scan = loc[p].scan
             /\ loc'[p].idx = loc[p].idx + 1]_vars

\* the first trade of a scan of two was skipped for want of a price
C18_Witness ==
    \E p \in Passes :
        /\ pc[p] = "wd_loop"
        /\ loc[p].cur = NULL
        /\ loc[p].idx = 2
        /\ Len(loc[p].scan) = 2
        /\ trades[loc[p].scan[1].id].status = "OPEN"

\* C17: when passes do not overlap, every strategy wallet stays at 0 or above
\* through every execute_trade and execute_exit.
C17_WalletNeverNegative ==
    \A s \in DOMAIN wallet : wallet[s] >= 0

\* execute_trade has returned after cutting the quantity of the sizer down to
\* what the balance it read could pay
C17_Witness ==
    \E p \in Passes :
        /\ pc[p] = "done"
        /\ loc[p].op = "execute_trade"
        /\ loc[p].ret # Some(0)
        /\ execute_trade_qty_no_resize(loc[p].price, 5, 100, loc[p].balance) * loc[p].price
              > loc[p].balance
        /\ loc[p].qty > 0
        /\ wallet[loc[p].t.strategy_name] = loc[p].balance - loc[p].qty * loc[p].price

\* C21: for a strategy below capacity that does not hold the candidate, a call
\* of check_portfolio_health whose sector lookup of the candidate fails admits
\* the candidate with the sector-unknown reason, whatever OPEN trades the
\* strategy holds.
C21_SectorFailsOpen ==
    ( /\ Gate(call)
      /\ Cardinality(OpenOf(call.strategy_name)) < 5
      /\ ~HoldsOpen(call)
      /\ call.new_candidate \in call.unknown ) =>
        /\ call.ret.raised = ""
        /\ call.ret.allowed
        /\ call.ret.reason = "OK (Sector Unknown)"

Writer(p) == pc[p] = "update_trade_status" /\ pc'[p] # "update_trade_status"

\* C23: a step changes the status of a trade only from OPEN, to TARGET_HIT or
\* STOP_HIT when the Exit Monitor writes it and to CLOSED when execute_exit
\* writes it; no trade that has left OPEN gets another status, OPEN included.
C23_StatusStateMachine ==
    [][\A i \in 1..Len(trades) :
          trades'[i].status # trades[i].status =>
              /\ trades[i].status = "OPEN"
              /\ \E p \in Passes :
                    /\ Writer(p)
                    /\ \/ /\ loc[p].op = "run_watchdog"
                          /\ trades'[i].status \in {"TARGET_HIT", "STOP_HIT"}
                       \/ /\ loc[p].op = "execute_exit"
                          /\ trades'[i].status = "CLOSED"]_vars

\* C24: a pass of the Exit Monitor whose authentication failed ends at once:
\* it reads no trades and no price, and no step of it changes a trade or a
\* wallet.
C24_AuthFailureHalts ==
    [][\A p \in Passes :
          ( /\ loc'[p].op = "run_watchdog"
            /\ loc'[p].raised # ""
            /\ <<pc[p], loc[p]>>' # <<pc[p], loc[p]>> ) =>
              /\ pc[p] = "idle" /\ pc'[p] = "done"
              /\ loc'[p].scan = <<>>
              /\ loc'[p].cur = NULL
              /\ trades' = trades
              /\ wallet' = wallet]_vars

\* the pass halted while a position was OPEN
C24_Witness ==
    \E p \in Passes :
        /\ pc[p] = "done"
        /\ loc[p].op = "run_watchdog"
        /\ loc[p].raised # ""
        /\ get_open_trades(NULL) # {}

\* the gate was asked about candidate B, and since then exactly one other
\* candidate A of the same strategy has been admitted and opened
HandledOneSince(c) ==
    /\ Gate(c)
    /\ AllIdle
    /\ Len(trades) = c.rows + 1
    /\ trades[Len(trades)].strategy_name = c.strategy_name
    /\ trades[Len(trades)].ticker # c.new_candidate

\* C25: handling a candidate A changes nothing for a candidate B of another
\* ticker and the same strategy: the gate gives B the decision it gave before A
\* was handled, and execute_trade buys the quantity of B it would have bought
\* then, so that A then B and B then A end in the same decisions, rows and
\* balance.
C25_DifferentTickersCommute ==
    HandledOneSince(call) =>
        /\ check_portfolio_health(call.new_candidate, call.strategy_name, call.unknown)
              = call.ret
        /\ execute_trade_qty(100, 5, 100, get_current_balance(call.strategy_name))
              = execute_trade_qty(100, 5, 100, call.balance)

VolatilityRead == call.fn = "get_market_volatility" /\ call.done

\* C26: get_market_volatility returns a factor between 0.5 and 1.0, and
\* exactly 1.0 when the volatility read fails or has no data; the sizer then
\* still returns a quantity.
C26_VolatilityFailSafe ==
    VolatilityRead =>
        /\ 50 <= call.ret /\ call.ret <= 100
        /\ ~call.vix_ok => call.ret = 100
        /\ call.qty \in Nat
        /\ (~call.vix_ok /\ call.entry # call.stop) =>
              call.qty = calculate_position_size(call.entry, call.stop, NULL, 100)

C26_Witness ==
    /\ VolatilityRead
    /\ ~call.vix_ok
    /\ call.ret = 100
    /\ call.qty > 0

\* C27: the write of place_or_update_trade into an existing OPEN trade leaves
\* the trade with the target_price and the stop_loss of that call, and with
\* its status, ticker and strategy_name as they were.
C27_LatestSignalWins ==
    [][\A p \in Passes :
         (pc[p] = "pt_write" /\ pc'[p] = "done" /\ loc[p].existing # NULL) =>
             LET trade_id == loc[p].existing[1][1]
             IN  /\ trades'[trade_id].target_price = loc[p].t.target_price
                 /\ trades'[trade_id].stop_loss = loc[p].t.stop_loss
                 /\ trades'[trade_id].status = trades[trade_id].status
                 /\ trades'[trade_id].ticker = trades[trade_id].ticker
                 /\ trades'[trade_id].strategy_name = trades[trade_id].strategy_name]_vars

\* C28: at most one trade is OPEN for each pair of a ticker and a strategy.
C28_UniqueOpenPosition ==
    \A i, j \in 1..Len(trades) :
        ( /\ i # j
          /\ trades[i].status = "OPEN" /\ trades[j].status = "OPEN"
          /\ trades[i].ticker = trades[j].ticker ) =>
            trades[i].strategy_name # trades[j].strategy_name

\* C29: every OPEN trade satisfies quantity x entry_price <= ACCOUNT_SIZE x 0.2,
\* from its first entry on.
C29_PositionExposure ==
    \A i \in 1..Len(trades) :
        trades[i].status = "OPEN" =>
            trades[i].quantity * trades[i].entry_price.n * 100
                <= ACCOUNT_SIZE * MAX_POSITION_ALLOCATION_PCT * trades[i].entry_price.d

====
